---- MODULE Spec2Model ----
(***************************************************************************)
(* WaveFileReader (src/audio_input/WaveFileReader.cpp): the constructor    *)
(* scans the chunks of a RIFF/WAVE byte source up to the data chunk, and   *)
(* getNextSample decodes one sample per call.                              *)
(*                                                                         *)
(* The byte source is a finite sequence of bytes; the stream position is   *)
(* a byte offset.  32-bit fields are kept as their four bytes and turned   *)
(* into a C++ int (two's complement, 32 bits) exactly where the code       *)
(* stores them into an int.  Floats are kept as exact dyadic numbers       *)
(* m * 2^e with the IEEE-754 binary32 rounding of each operation.          *)
(***************************************************************************)
EXTENDS Integers, Sequences, FiniteSets, TLC

---------------------------------------------------------------------------
(* Bounds of the explored inputs *)

\* chunks after the RIFF header in a source of the layout family
MaxChunks == 2
\* bytes of data payload in a source of the payload family
MaxData == 4
\* channel counts 0..MaxChannels in a source of the format family
MaxChannels == 2
\* declared frame sizes 0..MaxFrameSize in a source of the format family
MaxFrameSize == 5
\* getNextSample calls made on one reader
MaxCalls == MaxData + 3

---------------------------------------------------------------------------
(* Program constants *)

INT_MAX == 2147483647
INT_MIN == -INT_MAX - 1
UINT8_MAX == 255
INT16_MIN == -32768
INT16_MAX == 32767
INT24_MIN == -8388608
INT24_MAX == 8388607

CodecPCM == 1
CodecFloat == 3

Byte == 0..255

\* fourcc(c0, c1, c2, c3): a chunk id, as the four bytes a little-endian
\* read<uint32_t> takes from the source
fourcc(c0, c1, c2, c3) == <<c0, c1, c2, c3>>
RIFF == fourcc(82, 73, 70, 70)
WAVE == fourcc(87, 65, 86, 69)
FMT_ == fourcc(102, 109, 116, 32)
DATA == fourcc(100, 97, 116, 97)

---------------------------------------------------------------------------
(* Integer helpers *)

\* value of a little-endian 16-bit field (uint16_t)
U16(b) == b[1] + 256 * b[2]

\* a little-endian 32-bit field (uint32_t) stored into an int: the value
\* modulo 2^32 in -2^31 .. 2^31-1
ToInt32(b) ==
    16777216 * (IF b[4] >= 128 THEN b[4] - 256 ELSE b[4])
        + 65536 * b[3] + 256 * b[2] + b[1]

\* the field's unsigned value is below 2^31, so the int holds it unchanged
FitsInt(b) == b[4] < 128

\* C++ integer division (truncation toward zero), for a divisor # 0 and a
\* quotient that fits an int
CDiv(a, b) ==
    LET TruncDiv(x, y) == IF x < 0 /\ (x \div y) * y # x
                          THEN (x \div y) + 1
                          ELSE x \div y
    IN  IF b > 0 THEN TruncDiv(a, b) ELSE -TruncDiv(a, -b)

\* (i + 1) & (~1) on a 32-bit int, for i < INT_MAX
roundToEven(i) == (i + 1) - ((i + 1) % 2)

---------------------------------------------------------------------------
(* Floats: a finite binary32 value is <<m, e>>, meaning m * 2^e, with m    *)
(* odd (or <<0, 0>> for zero); <<1, 128>> and <<-1, 128>> are the          *)
(* infinities and <<0, 128>> is a NaN.  Expressions are evaluated in       *)
(* binary32, round to nearest, ties to even.                               *)

RECURSIVE Canon(_, _)
Canon(m, e) ==
    IF m = 0 THEN <<0, 0>>
    ELSE IF m % 2 = 0 THEN Canon(m \div 2, e + 1)
    ELSE <<m, e>>

\* n / 2^k rounded to the nearest integer, ties to the even one (n >= 0)
RoundShift(n, k) ==
    IF k <= 0 THEN n
    ELSE IF k > 26 THEN 0
    ELSE LET p == 2 ^ k
             q == n \div p
             r == n % p
         IN  IF 2 * r > p THEN q + 1
             ELSE IF 2 * r < p THEN q
             ELSE q + (q % 2)

\* scale a up by powers of two until a >= d: <<a * 2^s, s>>
RECURSIVE ScaleUp(_, _, _)
ScaleUp(a, d, s) == IF a >= d THEN <<a, s>> ELSE ScaleUp(2 * a, d, s + 1)

\* scale d up by powers of two while a >= 2 * d: <<d * 2^t, t>>
RECURSIVE ScaleDivisor(_, _, _)
ScaleDivisor(a, d, t) ==
    IF a < 2 * d THEN <<d, t>> ELSE ScaleDivisor(a, 2 * d, t + 1)

\* n further quotient bits of r / d by long division: <<mantissa, remainder>>
RECURSIVE DivBits(_, _, _, _)
DivBits(r, d, m, n) ==
    IF n = 0 THEN <<m, r>>
    ELSE IF 2 * r >= d THEN DivBits(2 * r - d, d, 2 * m + 1, n - 1)
    ELSE DivBits(2 * r, d, 2 * m, n - 1)

\* static_cast<float>(a) / d for integers 0 <= a < 2^24, 0 < d < 2^24 (both
\* convert to float exactly): the correctly rounded quotient
FDivInt(a, d) ==
    IF a = 0 THEN <<0, 0>>
    ELSE LET up  == ScaleUp(a, d, 0)
             dn  == ScaleDivisor(up[1], d, 0)
             mr  == DivBits(up[1] - dn[1], dn[1], 1, 23)
             m   == mr[1]
             r   == mr[2]
             mm  == IF 2 * r > dn[1] THEN m + 1
                    ELSE IF 2 * r < dn[1] THEN m
                    ELSE m + (m % 2)
         IN  Canon(mm, dn[2] - up[2] - 23)

\* f * 2 (exact)
FTimes2(f) == IF f[1] = 0 THEN f ELSE <<f[1], f[2] + 1>>

\* f - 1 for a float 0 <= f <= 2
FSubOne(f) ==
    IF f[2] >= 0 THEN Canon(f[1] * (2 ^ f[2]) - 1, 0)
    ELSE IF f[2] >= -24 THEN Canon(f[1] - 2 ^ (-f[2]), f[2])
    ELSE Canon(RoundShift(f[1], -f[2] - 24) - 16777216, -24)

\* toNormalizedFloat without the cast: the quotient is an integer division
toNormalizedFloatIntDiv(value, min, max) ==
    FSubOne(FTimes2(FDivInt((value - min) \div (max - min), 1)))

\* Converts an int in the range min..max to a float in the range -1..1
toNormalizedFloat(value, min, max) ==
    FSubOne(FTimes2(FDivInt(value - min, max - min)))

\* read<float>: the binary32 value of four little-endian bytes
FloatOfBits(b) ==
    LET sign == IF b[4] >= 128 THEN -1 ELSE 1
        ex   == (b[4] % 128) * 2 + (b[3] \div 128)
        frac == (b[3] % 128) * 65536 + b[2] * 256 + b[1]
    IN  IF ex = 255 THEN (IF frac = 0 THEN <<sign, 128>> ELSE <<0, 128>>)
        ELSE IF ex = 0 THEN Canon(sign * frac, -149)
        ELSE Canon(sign * (8388608 + frac), ex - 150)

---------------------------------------------------------------------------
(* State *)

VARIABLES
    file,             \* the byte source: a sequence of bytes
    cursor,           \* stream position (byte offset); -1 once the stream failed
    pc,               \* "start", "scan" (top of the loop), "switch" (chunk
                      \* header read), "ready" (constructed), "failed"
                      \* (constructor threw), "crashed" (undefined behaviour
                      \* ended the process)
    error,            \* kind of the last exception: "none", "format", "io"
    lastCase,         \* what the last constructor step did
    chunkId,          \* uint32_t chunkId of the current loop iteration
    chunkSizeField,   \* the four bytes of the chunk size as read
    chunkSize,        \* int chunkSize = read<uint32_t>(file)
    chunkStart,       \* position of the current chunk's payload
    codec,            \* fmt chunk: codec tag
    frameSize,        \* fmt chunk: int frameSize
    bitsPerSample,    \* fmt chunk: int bitsPerSample
    bytesPerSample,   \* constructor local, 0 until a fmt chunk sets it
    channelCount,     \* member
    frameRate,        \* member
    sampleFormat,     \* member; "Indeterminate" until a fmt chunk sets it
    remainingSamples, \* member
    frameCount,       \* member
    dataStart,        \* position of the data payload (-1: no data chunk yet)
    raw,              \* getNextSample: the integer handed to toNormalizedFloat
    sample,           \* getNextSample: the output parameter
    result,           \* last getNextSample call: "none", "true", "false", "throw"
    calls,            \* number of getNextSample calls made
    okCalls,          \* number of calls that returned true
    out               \* the samples returned so far, in order

loopVars == <<chunkId, chunkSizeField, chunkSize, chunkStart>>
fmtVars == <<codec, frameSize, bitsPerSample, bytesPerSample,
             channelCount, frameRate, sampleFormat>>
dataVars == <<remainingSamples, frameCount, dataStart>>
callVars == <<raw, sample, result, calls, okCalls, out>>
vars == <<file, cursor, pc, error, lastCase, loopVars, fmtVars, dataVars,
          callVars>>

SampleFormats == {"UInt8", "Int16", "Int24", "Float32"}

---------------------------------------------------------------------------
(* The byte stream (little_endian::read, seekg) *)

\* n bytes can be read at position pos
CanRead(pos, n) == pos >= 0 /\ pos <= Len(file) - n

\* the n bytes at position pos
Bytes(pos, n) == [i \in 1..n |-> file[pos + i]]

\* file.seekg(off, file.cur) at position pos: the new position, or -1 when
\* the target lies before the start of the source (the seek fails).  A
\* target past the end is accepted; positions are kept up to INT_MAX.
SeekCur(pos, off) ==
    IF pos < 0 THEN -1
    ELSE IF off < 0 THEN (IF pos + off < 0 THEN -1 ELSE pos + off)
    ELSE IF off > INT_MAX - pos THEN INT_MAX
    ELSE pos + off

---------------------------------------------------------------------------
(* The byte sources explored *)

LE16(n) == <<n % 256, n \div 256>>
LE32(n) == <<n % 256, (n \div 256) % 256, (n \div 65536) % 256, n \div 16777216>>

\* size fields whose unsigned value does not fit a positive int, or nearly
SizeMinus8 == <<248, 255, 255, 255>>      \* 0xFFFFFFF8
SizeMinus16 == <<240, 255, 255, 255>>     \* 0xFFFFFFF0
SizeIntMin == <<0, 0, 0, 128>>            \* 0x80000000
SizeIntMax == <<255, 255, 255, 127>>      \* 0x7FFFFFFF
SizeHuge == <<0, 0, 0, 64>>               \* 0x40000000

Header(sig, form) == sig \o LE32(0) \o form
Chunk(id, sizeField, payload) == id \o sizeField \o payload
FmtBody(cd, ch, rateField, fs, bits) ==
    LE16(cd) \o LE16(ch) \o rateField \o LE32(0) \o LE16(fs) \o LE16(bits)
FmtChunk(cd, ch, fs, bits) ==
    Chunk(FMT_, LE32(16), FmtBody(cd, ch, LE32(8000), fs, bits))

LIST == fourcc(76, 73, 83, 84)
RIFX == fourcc(82, 73, 70, 88)
AVI_ == fourcc(65, 86, 73, 32)

\* a fixed payload of n bytes
Ramp(n) == [i \in 1..n |-> CASE i % 4 = 1 -> 0
                             [] i % 4 = 2 -> 255
                             [] i % 4 = 3 -> 128
                             [] OTHER -> 127]

RECURSIVE Concat(_)
Concat(ss) == IF ss = <<>> THEN <<>> ELSE Head(ss) \o Concat(Tail(ss))

\* all sequences over S of length 0..n
SeqsUpTo(S, n) == UNION {[1..k -> S] : k \in 0..n}

\* format family: one fmt chunk with every combination of fields, one data chunk
BitsValues == {0, 4, 8, 9, 12, 16, 17, 24, 25, 32, 65535}
CodecValues == {CodecPCM, 2, CodecFloat}
RateFields == {LE32(0), LE32(8000), SizeIntMin}
FormatSources ==
    { Header(RIFF, WAVE)
        \o Chunk(FMT_, LE32(16), FmtBody(cd, ch, rf, fs, bits))
        \o Chunk(DATA, LE32(n), Ramp(n)) :
      cd \in CodecValues, ch \in 0..MaxChannels, rf \in RateFields,
      fs \in 0..MaxFrameSize, bits \in BitsValues, n \in 0..MaxData }

\* layout family: up to MaxChunks chunks of any kind and size before an
\* optional data chunk
Pcm8Mono == FmtBody(CodecPCM, 1, LE32(8000), 1, 8)
SkippedChunks ==
    { Chunk(LIST, LE32(0), <<>>),
      Chunk(LIST, LE32(2), <<1, 2>>),
      Chunk(LIST, LE32(5), <<1, 2, 3, 4, 5, 0>>),
      Chunk(LIST, SizeHuge, <<1, 2>>),
      Chunk(LIST, SizeIntMax, <<>>),
      Chunk(LIST, SizeIntMin, <<>>),
      Chunk(LIST, SizeMinus8, <<>>),
      Chunk(LIST, SizeMinus16, <<>>) }
FmtChunks ==
    { Chunk(FMT_, LE32(16), Pcm8Mono),
      Chunk(FMT_, LE32(18), Pcm8Mono \o <<0, 0>>),
      Chunk(FMT_, LE32(17), Pcm8Mono \o <<0, 0>>),
      Chunk(FMT_, LE32(14), Pcm8Mono),
      Chunk(FMT_, LE32(0), Pcm8Mono),
      Chunk(FMT_, SizeMinus8, Pcm8Mono),
      Chunk(FMT_, SizeIntMax, Pcm8Mono),
      Chunk(FMT_, SizeIntMin, Pcm8Mono),
      FmtChunk(CodecPCM, 2, 4, 16) }
DataChunks ==
    { <<>>,
      Chunk(DATA, LE32(3), <<0, 255, 128>>),
      Chunk(DATA, LE32(4), <<0, 255>>),
      Chunk(DATA, SizeMinus8, <<0, 255>>),
      Chunk(DATA, SizeIntMin, <<0>>) }
LayoutSources ==
    { Header(RIFF, WAVE) \o Concat(cs) \o d :
      cs \in SeqsUpTo(SkippedChunks \cup FmtChunks, MaxChunks), d \in DataChunks }

\* payload family: each sample format over every payload of up to MaxData bytes
DataBytes == {0, 127, 128, 255}
PayloadFormats ==
    { FmtChunk(CodecPCM, 1, 1, 8), FmtChunk(CodecPCM, 2, 2, 8),
      FmtChunk(CodecPCM, 1, 2, 16), FmtChunk(CodecPCM, 1, 3, 24),
      FmtChunk(CodecFloat, 1, 4, 32) }
PayloadSources ==
    { Header(RIFF, WAVE) \o f \o Chunk(DATA, LE32(Len(p)), p) :
      f \in PayloadFormats, p \in SeqsUpTo(DataBytes, MaxData) }

\* header family: every signature and form type, and every truncation of a
\* well-formed source
WellFormed ==
    Header(RIFF, WAVE) \o FmtChunk(CodecPCM, 1, 1, 8)
        \o Chunk(DATA, LE32(3), <<0, 255, 128>>)
HeaderSources ==
    { Header(sig, form) \o SubSeq(WellFormed, 13, Len(WellFormed)) :
      sig \in {RIFF, RIFX}, form \in {WAVE, AVI_} }
    \cup { SubSeq(WellFormed, 1, n) : n \in 0..Len(WellFormed) }

Sources == FormatSources \cup LayoutSources \cup PayloadSources \cup HeaderSources

---------------------------------------------------------------------------
(* Initial state: the reader object before its constructor body runs *)

Init ==
    /\ file \in Sources
    /\ cursor = 0
    /\ pc = "start"
    /\ error = "none"
    /\ lastCase = "none"
    /\ chunkId = <<0, 0, 0, 0>>
    /\ chunkSizeField = <<0, 0, 0, 0>>
    /\ chunkSize = 0
    /\ chunkStart = 0
    /\ codec = 0
    /\ frameSize = 0
    /\ bitsPerSample = 0
    /\ bytesPerSample = 0
    /\ channelCount = 0
    /\ frameRate = 0
    /\ sampleFormat = "Indeterminate"
    /\ remainingSamples = 0
    /\ frameCount = 0
    /\ dataStart = -1
    /\ raw = 0
    /\ sample = <<0, 0>>
    /\ result = "none"
    /\ calls = 0
    /\ okCalls = 0
    /\ out = <<>>

---------------------------------------------------------------------------
(* Outcomes of undefined behaviour.  An integer division by zero either    *)
(* traps (the process ends) or yields the quotient 0 (divide instructions  *)
(* that do not trap).  A signed overflow either traps or wraps modulo      *)
(* 2^32.  A member that was never assigned holds some value of Garbage.    *)

DivByZeroQuotients == {0}
Quotients(a, b) == IF b = 0 THEN DivByZeroQuotients ELSE {CDiv(a, b)}
Garbage == {-1, 0, 1}

\* roundToEven(chunkSize): the values the call can return, {} meaning that
\* only the trap is left to the caller
RoundToEvenResults(i) ==
    IF i = INT_MAX THEN {INT_MIN} ELSE {roundToEven(i)}
RoundToEvenOverflows(i) == i = INT_MAX

\* r - 16 on a 32-bit int
Minus16Results(r) ==
    IF r < INT_MIN + 16 THEN {(r - INT_MIN) + (INT_MAX - 15)} ELSE {r - 16}
Minus16Overflows(r) == r < INT_MIN + 16

---------------------------------------------------------------------------
(* The constructor *)

\* the constructor throws: no reader is produced
Throw(kind, case) ==
    /\ pc' = "failed"
    /\ error' = kind
    /\ lastCase' = case

\* undefined behaviour traps: the process ends
Crash(case) ==
    /\ pc' = "crashed"
    /\ lastCase' = case
    /\ UNCHANGED error

\* ReadHeader without the check of the form type (lines 39-41 left out)
ReadHeaderNoFormCheck ==
    /\ pc = "start"
    /\ IF ~CanRead(0, 4) THEN
           Throw("io", "header") /\ cursor' = -1
       ELSE IF Bytes(0, 4) # RIFF THEN
           Throw("format", "header") /\ cursor' = 4
       ELSE IF ~CanRead(4, 8) THEN
           Throw("io", "header") /\ cursor' = -1
       ELSE
           /\ pc' = "scan"
           /\ cursor' = 12
           /\ lastCase' = "header"
           /\ UNCHANGED error
    /\ UNCHANGED <<file, loopVars, fmtVars, dataVars, callVars>>

\* Read header (lines 32-41)
ReadHeader ==
    /\ pc = "start"
    /\ IF ~CanRead(0, 4) THEN
           Throw("io", "header") /\ cursor' = -1
       ELSE IF Bytes(0, 4) # RIFF THEN
           Throw("format", "header") /\ cursor' = 4
       ELSE IF ~CanRead(4, 8) THEN
           Throw("io", "header") /\ cursor' = -1
       ELSE IF Bytes(8, 4) # WAVE THEN
           Throw("format", "header") /\ cursor' = 12
       ELSE
           /\ pc' = "scan"
           /\ cursor' = 12
           /\ lastCase' = "header"
           /\ UNCHANGED error
    /\ UNCHANGED <<file, loopVars, fmtVars, dataVars, callVars>>

\* a loop iteration reads chunkId and chunkSize (lines 47-48)
ReadChunkHeader ==
    /\ pc = "scan"
    /\ UNCHANGED <<file, fmtVars, dataVars, callVars>>
    /\ IF ~CanRead(cursor, 8) THEN
           /\ Throw("io", "chunk header")
           /\ cursor' = -1
           /\ UNCHANGED loopVars
       ELSE
           /\ chunkId' = Bytes(cursor, 4)
           /\ chunkSizeField' = Bytes(cursor + 4, 4)
           /\ chunkSize' = ToInt32(Bytes(cursor + 4, 4))
           /\ chunkStart' = cursor + 8
           /\ cursor' = cursor + 8
           /\ pc' = "switch"
           /\ lastCase' = "chunk header"
           /\ UNCHANGED error

\* the sample format of a PCM fmt chunk (lines 68-80); ok is FALSE when the
\* bit depth is rejected
PcmFormat(bits) ==
    IF bits = 8 THEN [ok |-> TRUE, format |-> "UInt8", bytes |-> 1]
    ELSE IF bits <= 16 THEN [ok |-> TRUE, format |-> "Int16", bytes |-> 2]
    ELSE IF bits <= 24 THEN [ok |-> TRUE, format |-> "Int24", bytes |-> 3]
    ELSE [ok |-> FALSE, format |-> "Indeterminate", bytes |-> 0]

\* the sample format of a Float fmt chunk (lines 86-91)
FloatFormat(bits) ==
    IF bits = 32 THEN [ok |-> TRUE, format |-> "Float32", bytes |-> 4]
    ELSE [ok |-> FALSE, format |-> "Indeterminate", bytes |-> 0]

\* line 81: bytesPerSample != frameSize / channelCount, for a quotient q
OrganizationRejected(bps, q) == bps # q

\* the fmt case goes on to the next loop iteration
FmtAccepted ==
    /\ pc' = "scan"
    /\ lastCase' = "fmt"
    /\ UNCHANGED error

\* Determine sample format (lines 63-95)
SelectFormat(cd, ch, fs, bits) ==
    IF cd = CodecPCM THEN
        LET sel == PcmFormat(bits) IN
        IF ~sel.ok THEN
            Throw("format", "fmt") /\ UNCHANGED <<sampleFormat, bytesPerSample>>
        ELSE
            /\ sampleFormat' = sel.format
            /\ bytesPerSample' = sel.bytes
            /\ \/ ch = 0 /\ Crash("fmt")
               \/ \E q \in Quotients(fs, ch) :
                      IF OrganizationRejected(sel.bytes, q)
                      THEN Throw("format", "fmt")
                      ELSE FmtAccepted
    ELSE IF cd = CodecFloat THEN
        LET sel == FloatFormat(bits) IN
        IF ~sel.ok THEN
            Throw("format", "fmt") /\ UNCHANGED <<sampleFormat, bytesPerSample>>
        ELSE
            /\ sampleFormat' = sel.format
            /\ bytesPerSample' = sel.bytes
            /\ FmtAccepted
    ELSE
        Throw("format", "fmt") /\ UNCHANGED <<sampleFormat, bytesPerSample>>

\* case 'fmt ' (lines 50-97)
FmtCase ==
    /\ pc = "switch"
    /\ chunkId = FMT_
    /\ UNCHANGED <<file, loopVars, dataVars, callVars>>
    /\ IF ~CanRead(cursor, 16) THEN
           /\ Throw("io", "fmt fields")
           /\ cursor' = -1
           /\ UNCHANGED fmtVars
       ELSE
           LET cd   == U16(Bytes(cursor, 2))
               ch   == U16(Bytes(cursor + 2, 2))
               fs   == U16(Bytes(cursor + 12, 2))
               bits == U16(Bytes(cursor + 14, 2))
           IN  /\ codec' = cd
               /\ channelCount' = ch
               /\ frameRate' = ToInt32(Bytes(cursor + 4, 4))
               /\ frameSize' = fs
               /\ bitsPerSample' = bits
               /\ \/ /\ RoundToEvenOverflows(chunkSize)
                     /\ Crash("fmt seek")
                     /\ cursor' = cursor + 16
                     /\ UNCHANGED <<sampleFormat, bytesPerSample>>
                  \/ \E r \in RoundToEvenResults(chunkSize) :
                        \/ /\ Minus16Overflows(r)
                           /\ Crash("fmt seek")
                           /\ cursor' = cursor + 16
                           /\ UNCHANGED <<sampleFormat, bytesPerSample>>
                        \/ \E off \in Minus16Results(r) :
                              LET pos == SeekCur(cursor + 16, off) IN
                              IF pos < 0 THEN
                                  /\ Throw("io", "fmt seek")
                                  /\ cursor' = -1
                                  /\ UNCHANGED <<sampleFormat, bytesPerSample>>
                              ELSE
                                  /\ cursor' = pos
                                  /\ SelectFormat(cd, ch, fs, bits)

\* case 'data' (lines 98-103).  Without an earlier fmt chunk bytesPerSample
\* is 0 and channelCount and frameRate were never assigned.
DataCase ==
    /\ pc = "switch"
    /\ chunkId = DATA
    /\ dataStart' = cursor
    /\ UNCHANGED <<file, cursor, loopVars, codec, frameSize, bitsPerSample,
                   bytesPerSample, sampleFormat, callVars>>
    /\ \E ch \in (IF bytesPerSample = 0 THEN Garbage ELSE {channelCount}),
          fr \in (IF bytesPerSample = 0 THEN Garbage ELSE {frameRate}) :
          /\ channelCount' = ch
          /\ frameRate' = fr
          /\ \/ /\ bytesPerSample = 0
                /\ Crash("data")
                /\ UNCHANGED <<remainingSamples, frameCount>>
             \/ \E rem \in Quotients(chunkSize, bytesPerSample) :
                   /\ remainingSamples' = rem
                   /\ \/ /\ ch = 0
                         /\ Crash("data")
                         /\ UNCHANGED frameCount
                      \/ \E fc \in Quotients(rem, ch) :
                            /\ frameCount' = fc
                            /\ pc' = "ready"
                            /\ lastCase' = "data"
                            /\ UNCHANGED error

\* default: skip unknown chunk (lines 104-108)
SkipCase ==
    /\ pc = "switch"
    /\ chunkId \notin {FMT_, DATA}
    /\ UNCHANGED <<file, loopVars, fmtVars, dataVars, callVars>>
    /\ \/ /\ RoundToEvenOverflows(chunkSize)
          /\ Crash("skip seek")
          /\ UNCHANGED cursor
       \/ \E r \in RoundToEvenResults(chunkSize) :
             LET pos == SeekCur(cursor, r) IN
             IF pos < 0 THEN
                 /\ Throw("io", "skip seek")
                 /\ cursor' = -1
             ELSE
                 /\ cursor' = pos
                 /\ pc' = "scan"
                 /\ lastCase' = "skip"
                 /\ UNCHANGED error

---------------------------------------------------------------------------
(* getNextSample *)

\* BytesOf with the Int24 case reading a whole int
BytesOfWholeInt(format) ==
    CASE format = "UInt8" -> 1
      [] format = "Int16" -> 2
      [] format = "Int24" -> 4
      [] format = "Float32" -> 4
      [] OTHER -> 0

\* bytes one sample takes in the source
BytesOf(format) ==
    CASE format = "UInt8" -> 1
      [] format = "Int16" -> 2
      [] format = "Int24" -> 3
      [] format = "Float32" -> 4
      [] OTHER -> 0

\* read<int16_t>
ReadInt16(b) == IF U16(b) >= 32768 THEN U16(b) - 65536 ELSE U16(b)

\* read<int, 24>: three little-endian bytes in an int, upper byte zero
ReadInt24(b) == b[1] + 256 * b[2] + 65536 * b[3]

\* FixTwosComplement testing bit 22 instead of bit 23
FixTwosComplementBit22(r) ==
    IF (r \div 4194304) % 2 = 1
    THEN ((r % 16777216) - 16777216)
    ELSE r

\* if (raw & 0x800000) raw |= 0xFF000000 (line 142)
FixTwosComplement(r) ==
    IF (r \div 8388608) % 2 = 1
    THEN ((r % 16777216) - 16777216)
    ELSE r

\* the integer a sample's bytes stand for (lines 131, 136, 141-142)
RawOf(format, b) ==
    CASE format = "UInt8" -> b[1]
      [] format = "Int16" -> ReadInt16(b)
      [] format = "Int24" -> FixTwosComplement(ReadInt24(b))
      [] OTHER -> 0

\* the float a sample's bytes decode to (lines 129-150)
Decode(format, b) ==
    CASE format = "UInt8" -> toNormalizedFloat(RawOf(format, b), 0, UINT8_MAX)
      [] format = "Int16" -> toNormalizedFloat(RawOf(format, b), INT16_MIN, INT16_MAX)
      [] format = "Int24" -> toNormalizedFloat(RawOf(format, b), INT24_MIN, INT24_MAX)
      [] format = "Float32" -> FloatOfBits(b)

\* GetNextSample with the test written as remainingSamples-- == 0: the call
\* that returns false decrements too
GetNextSampleDecrementFirst ==
    /\ pc = "ready"
    /\ calls < MaxCalls
    /\ calls' = calls + 1
    /\ UNCHANGED <<file, lastCase, loopVars, fmtVars, frameCount, dataStart>>
    /\ IF remainingSamples = 0 THEN
           /\ result' = "false"
           /\ remainingSamples' = remainingSamples - 1
           /\ UNCHANGED <<cursor, pc, error, raw, sample, okCalls, out>>
       ELSE IF remainingSamples = INT_MIN THEN
           \* remainingSamples-- overflows
           /\ \/ pc' = "crashed" /\ UNCHANGED remainingSamples
              \/ pc' = "ready" /\ remainingSamples' = INT_MAX
           /\ result' = "none"
           /\ UNCHANGED <<cursor, error, raw, sample, okCalls, out>>
       ELSE
           /\ remainingSamples' = remainingSamples - 1
           /\ UNCHANGED pc
           /\ \E format \in (IF sampleFormat = "Indeterminate"
                             THEN SampleFormats \cup {"None"}
                             ELSE {sampleFormat}) :
                 IF format = "None" THEN
                     /\ result' = "true"
                     /\ okCalls' = okCalls + 1
                     /\ out' = Append(out, sample)
                     /\ UNCHANGED <<cursor, error, raw, sample>>
                 ELSE IF ~CanRead(cursor, BytesOf(format)) THEN
                     /\ result' = "throw"
                     /\ error' = "io"
                     /\ cursor' = -1
                     /\ UNCHANGED <<raw, sample, okCalls, out>>
                 ELSE
                     LET b == Bytes(cursor, BytesOf(format)) IN
                     /\ cursor' = cursor + BytesOf(format)
                     /\ raw' = RawOf(format, b)
                     /\ sample' = Decode(format, b)
                     /\ result' = "true"
                     /\ okCalls' = okCalls + 1
                     /\ out' = Append(out, Decode(format, b))
                     /\ UNCHANGED error

\* lines 125-152.  A switch on a sampleFormat that was never assigned takes
\* any case or none.
GetNextSample ==
    /\ pc = "ready"
    /\ calls < MaxCalls
    /\ calls' = calls + 1
    /\ UNCHANGED <<file, lastCase, loopVars, fmtVars, frameCount, dataStart>>
    /\ IF remainingSamples = 0 THEN
           /\ result' = "false"
           /\ UNCHANGED <<cursor, pc, error, remainingSamples, raw, sample,
                          okCalls, out>>
       ELSE IF remainingSamples = INT_MIN THEN
           \* remainingSamples-- overflows
           /\ \/ pc' = "crashed" /\ UNCHANGED remainingSamples
              \/ pc' = "ready" /\ remainingSamples' = INT_MAX
           /\ result' = "none"
           /\ UNCHANGED <<cursor, error, raw, sample, okCalls, out>>
       ELSE
           /\ remainingSamples' = remainingSamples - 1
           /\ UNCHANGED pc
           /\ \E format \in (IF sampleFormat = "Indeterminate"
                             THEN SampleFormats \cup {"None"}
                             ELSE {sampleFormat}) :
                 IF format = "None" THEN
                     /\ result' = "true"
                     /\ okCalls' = okCalls + 1
                     /\ out' = Append(out, sample)
                     /\ UNCHANGED <<cursor, error, raw, sample>>
                 ELSE IF ~CanRead(cursor, BytesOf(format)) THEN
                     /\ result' = "throw"
                     /\ error' = "io"
                     /\ cursor' = -1
                     /\ UNCHANGED <<raw, sample, okCalls, out>>
                 ELSE
                     LET b == Bytes(cursor, BytesOf(format)) IN
                     /\ cursor' = cursor + BytesOf(format)
                     /\ raw' = RawOf(format, b)
                     /\ sample' = Decode(format, b)
                     /\ result' = "true"
                     /\ okCalls' = okCalls + 1
                     /\ out' = Append(out, Decode(format, b))
                     /\ UNCHANGED error

---------------------------------------------------------------------------

Next ==
    \/ ReadHeader
    \/ ReadChunkHeader
    \/ FmtCase
    \/ DataCase
    \/ SkipCase
    \/ GetNextSample

Spec == Init /\ [][Next]_vars

\* the program runs on as long as it has a step to take
FairSpec == Spec /\ WF_vars(Next)

---------------------------------------------------------------------------
(* Properties *)

\* the data chunk's declared size fits an int and all of its bytes are in
\* the source
PayloadPresent ==
    /\ dataStart >= 0
    /\ FitsInt(chunkSizeField)
    /\ chunkSize <= Len(file) - dataStart

\* C1: on an accepted source whose data payload is fully present, exactly
\* getFrameCount() * getChannelCount() calls of getNextSample return true
\* before the first call that returns false.
C1_CallsBeforeFirstFalse ==
    (pc = "ready" /\ PayloadPresent /\ result = "false")
        => okCalls = frameCount * channelCount

\* C2: right after a successful construction, frameCount * channelCount
\* equals the initial remainingSamples.
C2_FrameCountTimesChannels ==
    (pc = "ready" /\ calls = 0)
        => frameCount * channelCount = remainingSamples

\* C3: in every state of a constructed reader remainingSamples is >= 0, and
\* no getNextSample call makes it larger, whatever the declared data size.
C3_RemainingNeverNegative ==
    [][ pc' = "ready" =>
          /\ remainingSamples' >= 0
          /\ (pc = "ready" => remainingSamples' <= remainingSamples) ]_vars

\* C4: the constructor's chunk scan terminates on every source: it reaches
\* the data chunk or ends with an error.
C4_ScanTerminates == <>(pc \in {"ready", "failed", "crashed"})

\* C5: whenever the data case is processed a fmt chunk was parsed before:
\* sampleFormat is known and bytesPerSample is one of 1, 2, 3, 4.
C5_FormatKnownAtData ==
    lastCase = "data"
        => (sampleFormat \in SampleFormats /\ bytesPerSample \in 1..4)

\* C6: a fmt chunk (PCM or Float) is accepted only if bytesPerSample *
\* channelCount equals the declared frame size, so every constructed reader
\* satisfies that equation.
C6_FrameSizeConsistent ==
    (pc \in {"scan", "ready"} /\ bytesPerSample # 0)
        => bytesPerSample * channelCount = frameSize

\* C7: a PCM fmt chunk with b bits per sample selects UInt8 / 1 byte when
\* b <= 8, Int16 / 2 bytes when 8 < b <= 16, Int24 / 3 bytes when
\* 16 < b <= 24, and fails with a format error when b > 24.  Stated for
\* chunks with a channel count above 0, where the division of line 81 is
\* defined.
C7_PcmBitDepth ==
    (lastCase = "fmt" /\ codec = CodecPCM /\ channelCount > 0) =>
        /\ bitsPerSample <= 8
               => (sampleFormat = "UInt8" /\ bytesPerSample = 1)
        /\ (8 < bitsPerSample /\ bitsPerSample <= 16)
               => (sampleFormat = "Int16" /\ bytesPerSample = 2)
        /\ (16 < bitsPerSample /\ bitsPerSample <= 24)
               => (sampleFormat = "Int24" /\ bytesPerSample = 3)
        /\ bitsPerSample > 24 => (pc = "failed" /\ error = "format")

\* C8: a chunk that is neither fmt nor data, of declared (unsigned) size n,
\* moves the cursor from the start of its payload by n bytes when n is even
\* and by n + 1 bytes when n is odd.  A size of 2^31 or more asks for a
\* position no int offset reaches, so only sizes that fit an int can comply.
C8_SkipAdvance ==
    lastCase \in {"skip", "skip seek"} =>
        /\ pc = "scan"
        /\ FitsInt(chunkSizeField)
        /\ chunkSize < INT_MAX
        /\ cursor - chunkStart = chunkSize + (chunkSize % 2)

\* the source of the 8-bit mono example
Example8BitMono ==
    Header(RIFF, WAVE) \o FmtChunk(CodecPCM, 1, 1, 8)
        \o Chunk(DATA, LE32(3), <<0, 255, 128>>)

\* C9: construction leaves the cursor at the first byte of the data payload
\* and the k-th successful getNextSample call consumes bytesPerSample bytes,
\* payload bytes k*bytesPerSample .. (k+1)*bytesPerSample - 1, so the
\* samples come in data-chunk byte order; the 8-bit mono payload
\* [0x00, 0xFF, 0x80] yields -1, 1 and 32897 * 2^-23 (1/255 rounded in
\* binary32 arithmetic, off by less than 2^-23), then "no more".
C9_DecodeOrder ==
    pc = "ready" =>
        /\ Bytes(dataStart - 8, 4) = DATA
        /\ error = "none" => cursor = dataStart + okCalls * bytesPerSample
        /\ Len(out) = okCalls
        /\ \A k \in 1..okCalls :
               out[k] = Decode(sampleFormat,
                               Bytes(dataStart + (k - 1) * bytesPerSample,
                                     bytesPerSample))
        /\ (file = Example8BitMono /\ calls >= 4) =>
               /\ out = << <<-1, 0>>, <<1, 0>>, <<32897, -23>> >>
               /\ 32897 * 255 - 8388608 \in 0..255
               /\ result = "false"

\* C9 witness: the example source, read to its end
C9_Witness ==
    /\ pc = "ready"
    /\ file = Example8BitMono
    /\ okCalls = 3
    /\ result = "false"

\* C10: for an Int24 stream the integer that is normalized is the two's
\* complement value of the 24-bit little-endian pattern v: v below 2^23,
\* v - 2^24 otherwise, always in -8388608..8388607; 0x7FFFFF decodes to +1
\* and 0x800000 to -1.
C10_Int24TwosComplement ==
    (pc = "ready" /\ sampleFormat = "Int24" /\ result = "true") =>
        LET b == Bytes(cursor - 3, 3)
            v == b[1] + 256 * b[2] + 65536 * b[3]
        IN  /\ raw = (IF v < 8388608 THEN v ELSE v - 16777216)
            /\ raw \in INT24_MIN..INT24_MAX
            /\ v = 8388607 => sample = <<1, 0>>
            /\ v = 8388608 => sample = <<-1, 0>>

\* C10 witness: the pattern 0x800000 was decoded
C10_Witness ==
    /\ pc = "ready"
    /\ sampleFormat = "Int24"
    /\ result = "true"
    /\ Bytes(cursor - 3, 3) = <<0, 0, 128>>
    /\ raw = INT24_MIN
    /\ sample = <<-1, 0>>

\* a float of magnitude up to 2, in units of 2^-24 (an integer, as every
\* such binary32 value of magnitude 2^-24 or more, and zero, is)
Scaled24(f) == f[1] * (2 ^ (f[2] + 24))

\* floor(n * 2^24 / d) for 0 <= n <= d, by long division
RECURSIVE FloorBits(_, _, _, _)
FloorBits(r, d, q, k) ==
    IF k = 0 THEN q
    ELSE IF 2 * r >= d THEN FloorBits(2 * r - d, d, 2 * q + 1, k - 1)
    ELSE FloorBits(2 * r, d, 2 * q, k - 1)
ExactScaled24(n, d) == IF n = d THEN 16777216 ELSE FloorBits(n, d, 0, 24)

\* the (min, max) pair of an integer sample format
MinOf(format) ==
    CASE format = "UInt8" -> 0
      [] format = "Int16" -> -32768
      [] format = "Int24" -> -8388608
MaxOf(format) ==
    CASE format = "UInt8" -> 255
      [] format = "Int16" -> 32767
      [] format = "Int24" -> 8388607

\* C11: for each integer sample format with its (min, max) pair,
\* toNormalizedFloat maps min to exactly -1 and max to exactly +1, and every
\* raw value in min..max to ((raw - min) / (max - min)) * 2 - 1 evaluated in
\* binary32 (within 2^-23 of the exact quotient), a value in [-1, 1] that is
\* non-decreasing in raw.
C11_Normalize ==
    (pc = "ready" /\ result = "true"
        /\ sampleFormat \in {"UInt8", "Int16", "Int24"}) =>
        LET mn == MinOf(sampleFormat)
            mx == MaxOf(sampleFormat)
            n  == 2 * (raw - mn) - (mx - mn)
            a  == IF n < 0 THEN -n ELSE n
            s  == Scaled24(sample)
            sa == IF s < 0 THEN -s ELSE s
        IN  /\ raw \in mn..mx
            /\ raw = mn => sample = <<-1, 0>>
            /\ raw = mx => sample = <<1, 0>>
            /\ sample[2] >= -24
            /\ s \in -16777216..16777216
            /\ (n > 0 => s >= 0) /\ (n < 0 => s <= 0)
            /\ sa - ExactScaled24(a, mx - mn) \in -2..2
            /\ raw > mn =>
                   Scaled24(toNormalizedFloat(raw - 1, mn, mx)) <= s
            /\ raw < mx =>
                   s <= Scaled24(toNormalizedFloat(raw + 1, mn, mx))

\* C11 witness: an interior value was normalized
C11_Witness ==
    /\ pc = "ready"
    /\ result = "true"
    /\ sampleFormat = "UInt8"
    /\ raw = 128
    /\ sample = <<32897, -23>>

\* the source has a signature that is not 'RIFF', or has a form type at
\* bytes 8..11 that is not 'WAVE'
HeaderMalformed ==
    \/ Len(file) >= 4 /\ Bytes(0, 4) # RIFF
    \/ Len(file) >= 12 /\ Bytes(8, 4) # WAVE

C13_CodecAccepted ==
    /\ pc = "ready" =>
           /\ codec \in {CodecPCM, CodecFloat}
           /\ codec = CodecFloat => bitsPerSample = 32
    /\ ( /\ lastCase = "fmt"
         /\ \/ codec \notin {CodecPCM, CodecFloat}
            \/ codec = CodecFloat /\ bitsPerSample # 32 )
           => (pc = "failed" /\ error = "format")

\* C14: every constructed reader has frameRate > 0 and channelCount > 0, so
\* a fmt chunk that declares a frame rate of 0 or a channel count of 0 never
\* leads to a constructed reader.  Stated for readers whose members were
\* set by a fmt chunk (bytesPerSample # 0).
C14_PositiveRateAndChannels ==
    (pc = "ready" /\ bytesPerSample # 0)
        => (frameRate > 0 /\ channelCount > 0)

\* C15: after a fmt chunk of declared (unsigned) size s was processed
\* without error the cursor is s rounded up to even past the start of the
\* chunk's payload, and the 16 bytes of format fields were read from inside
\* the declared chunk (s >= 16).  A size of 2^31 or more asks for a
\* position no int offset reaches, so only sizes that fit an int can comply.
C15_FmtAdvance ==
    (lastCase = "fmt" /\ pc = "scan") =>
        /\ FitsInt(chunkSizeField)
        /\ chunkSize >= 16
        /\ chunkSize < INT_MAX
        /\ cursor - chunkStart = chunkSize + (chunkSize % 2)

\* C16: a getNextSample call that returns a sample lowers remainingSamples
\* by exactly one; a call that returns false, and a call whose read of the
\* sample bytes fails with an I/O error, leave remainingSamples unchanged.
C16_RemainingPerCall ==
    [][ (pc = "ready" /\ calls' = calls + 1) =>
          /\ result' = "true" => remainingSamples' = remainingSamples - 1
          /\ result' \in {"false", "throw"}
                => remainingSamples' = remainingSamples ]_vars

\* C17: exhaustion is absorbing.  Once a getNextSample call has returned
\* false every later call returns false too, reads no bytes (the cursor
\* stays), does not write its output parameter, and leaves
\* remainingSamples, frameRate, frameCount, channelCount and sampleFormat
\* unchanged.
C17_ExhaustionAbsorbing ==
    [][ (pc = "ready" /\ result = "false") =>
          /\ calls' = calls + 1
          /\ result' = "false"
          /\ UNCHANGED <<cursor, sample, raw, out, okCalls, error,
                         remainingSamples, frameRate, frameCount,
                         channelCount, sampleFormat>> ]_vars

C17_Witness ==
    /\ pc = "ready"
    /\ result = "false"
    /\ okCalls = 3
    /\ calls = okCalls + 2
    /\ remainingSamples = 0

====
